---- MODULE Spec2Model ----
(***************************************************************************)
(* Model of the election scraper: elections_scraper.py (the refactored     *)
(* script) and elections-scraper.py (the earlier script).  One run of a    *)
(* script is a state machine: fetch the index page, extract the district   *)
(* links, fetch and parse every district page, export the CSV, render the  *)
(* chart.                                                                  *)
(*                                                                         *)
(* Strings are sequences of tokens (a token is a character, or a word whose*)
(* letters no operation looks into); "nbsp" is the character U+00A0.       *)
(* An optional value (None or a value) is a sequence of length 0 or 1.     *)
(* A Python dict is a sequence of [key, value] entries in insertion order. *)
(***************************************************************************)
EXTENDS Integers, Sequences, FiniteSets, TLC

VARIABLES
    script,             \* which of the two scripts runs
    filename,           \* sys.argv[2]
    index_response,     \* what the site answers for the index URL
    site,               \* what the site answers for each district URL
    pc,                 \* position of the run in elections_scraper()
    error,              \* the exception that ended the run, "" when none
    soup,               \* elections_scraper: soup
    links,              \* extract_all_districts_data: links
    pos,                \* number of links the for loop has taken
    all_district_data,  \* extract_all_districts_data: all_district_data
    stdout,             \* every message printed so far
    requested,          \* the URLs requests.get was called with, in order
    results_dir,        \* whether the directory Results exists
    csv_files,          \* the CSV files under Results: path and content
    png_files,          \* the chart files under Results: path and content
    runs,               \* how many times the script has been started
    csv_before,         \* csv_files when the present run started
    png_before          \* png_files when the present run started

vars == <<script, filename, index_response, site, pc, error, soup, links, pos,
          all_district_data, stdout, requested, results_dir, csv_files,
          png_files, runs, csv_before, png_before>>

-----------------------------------------------------------------------------
(* Python values *)

None == <<>>
Some(v) == <<v>>

Whitespace == {" ", "nbsp"}
Digits == {"0", "1", "2", "3", "4", "5", "6", "7", "8", "9"}

DigitValue(d) ==
    CASE d = "0" -> 0 [] d = "1" -> 1 [] d = "2" -> 2 [] d = "3" -> 3
      [] d = "4" -> 4 [] d = "5" -> 5 [] d = "6" -> 6 [] d = "7" -> 7
      [] d = "8" -> 8 [] d = "9" -> 9

\* str.strip(): leading and trailing whitespace removed
RECURSIVE LStrip(_)
LStrip(t) == IF t # <<>> /\ Head(t) \in Whitespace THEN LStrip(Tail(t)) ELSE t

RECURSIVE RStrip(_)
RStrip(t) ==
    IF t # <<>> /\ t[Len(t)] \in Whitespace
    THEN RStrip(SubSeq(t, 1, Len(t) - 1)) ELSE t

Strip(t) == RStrip(LStrip(t))

\* position of the first occurrence of token c in t, 0 when there is none
RECURSIVE IndexOf(_, _)
IndexOf(t, c) ==
    IF t = <<>> THEN 0
    ELSE IF Head(t) = c THEN 1
    ELSE LET r == IndexOf(Tail(t), c) IN IF r = 0 THEN 0 ELSE r + 1

\* str.split(sep): the pieces between the occurrences of sep
RECURSIVE Split(_, _)
Split(t, sep) ==
    LET k == IndexOf(t, sep) IN
    IF k = 0 THEN <<t>>
    ELSE <<SubSeq(t, 1, k - 1)>> \o Split(SubSeq(t, k + 1, Len(t)), sep)

\* "pat in t" for strings
Contains(t, pat) ==
    \E k \in 0..(Len(t) - Len(pat)) : SubSeq(t, k + 1, k + Len(pat)) = pat

\* str.endswith
EndsWith(t, suffix) ==
    /\ Len(t) >= Len(suffix)
    /\ SubSeq(t, Len(t) - Len(suffix) + 1, Len(t)) = suffix

\* text.replace(ch, ""): every occurrence of ch removed
RECURSIVE Remove(_, _)
Remove(t, ch) ==
    IF t = <<>> THEN <<>>
    ELSE IF Head(t) = ch THEN Remove(Tail(t), ch)
    ELSE <<Head(t)>> \o Remove(Tail(t), ch)

clean_data(text) == Remove(text, "nbsp")

\* value of a string of decimal digits
RECURSIVE DecimalValue(_)
DecimalValue(t) ==
    IF t = <<>> THEN 0
    ELSE 10 * DecimalValue(SubSeq(t, 1, Len(t) - 1)) + DigitValue(t[Len(t)])

\* int(text): surrounding whitespace is ignored; anything but a non-empty
\* string of digits raises ValueError
ParseInt(text) ==
    LET s == Strip(text) IN
    IF s # <<>> /\ \A k \in 1..Len(s) : s[k] \in Digits
    THEN [exc |-> "", value |-> DecimalValue(s)]
    ELSE [exc |-> "ValueError", value |-> 0]

\* str(n) for n >= 0
RECURSIVE DecimalText(_)
DecimalText(n) ==
    LET d == CHOOSE c \in Digits : DigitValue(c) = n % 10 IN
    IF n < 10 THEN <<d>> ELSE DecimalText(n \div 10) \o <<d>>

-----------------------------------------------------------------------------
(* dict *)

DictHas(d, k) == \E j \in 1..Len(d) : d[j].key = k

DictGet(d, k) == d[CHOOSE j \in 1..Len(d) : d[j].key = k].value

\* d[k] = v: an existing key keeps its place and takes the new value
RECURSIVE DictSet(_, _, _)
DictSet(d, k, v) ==
    IF d = <<>> THEN <<[key |-> k, value |-> v]>>
    ELSE IF Head(d).key = k THEN <<[key |-> k, value |-> v]>> \o Tail(d)
    ELSE <<Head(d)>> \o DictSet(Tail(d), k, v)

RECURSIVE DictKeys(_)
DictKeys(d) == IF d = <<>> THEN <<>> ELSE <<Head(d).key>> \o DictKeys(Tail(d))

RECURSIVE DictValues(_)
DictValues(d) ==
    IF d = <<>> THEN <<>> ELSE <<Head(d).value>> \o DictValues(Tail(d))

\* dict(zip(names, values)): pairs up to the shorter length, inserted in order
RECURSIVE DictZip(_, _)
DictZip(names, values) ==
    IF names = <<>> \/ values = <<>> THEN <<>>
    ELSE LET n == IF Len(names) < Len(values) THEN Len(names) ELSE Len(values)
         IN  DictSet(DictZip(SubSeq(names, 1, n - 1), SubSeq(values, 1, n - 1)),
                     names[n], values[n])

-----------------------------------------------------------------------------
(* messages on standard output *)

Msg(level, text, item) == [level |-> level, text |-> text, item |-> item]

-----------------------------------------------------------------------------
(* Link Extractor *)

base_url == <<"https://volby.cz/pls/ps2017nss/">>

\* An index page is the sequence of its td.cislo cells in document order.
\* cell.a is the first <a> of the cell (None when it has none); its href
\* is the attribute's value (None when the attribute is missing).
NoLinkCell == [a |-> None]
NoHrefCell == [a |-> Some([href |-> None])]
HrefCell(h) == [a |-> Some([href |-> Some(h)])]

\* collect_url: a Tag is always truthy, a string is truthy when non-empty
collect_url(link, base) ==
    IF link # None
    THEN LET href == link[1].href IN
         IF href # None /\ href[1] # <<>> THEN Some(base \o href[1]) ELSE None
    ELSE None

\* extract_all_district_links of elections_scraper.py
RECURSIVE extract_all_district_links(_)
extract_all_district_links(cells) ==
    IF cells = <<>> THEN [exc |-> "", links |-> <<>>, out |-> <<>>]
    ELSE LET rest == extract_all_district_links(
                         SubSeq(cells, 1, Len(cells) - 1))
             complete_url == collect_url(cells[Len(cells)].a, base_url)
         IN  IF complete_url = None
             THEN [rest EXCEPT !.out = Append(@,
                      Msg("WARNING", "Failed to obtain complete URL for a link",
                          <<>>))]
             ELSE [rest EXCEPT !.links = Append(@, complete_url[1])]

\* all_district_links of elections-scraper.py: link.get on None raises
\* AttributeError and a falsy href raises ValueError; the handler catches
\* TypeError and KeyError only, so either ends the function.
RECURSIVE all_district_links(_)
all_district_links(cells) ==
    IF cells = <<>> THEN [exc |-> "", links |-> <<>>, out |-> <<>>]
    ELSE LET rest == all_district_links(SubSeq(cells, 1, Len(cells) - 1))
             link == cells[Len(cells)].a
         IN  IF rest.exc # "" THEN rest
             ELSE IF link = None THEN [rest EXCEPT !.exc = "AttributeError"]
             ELSE IF link[1].href = None \/ link[1].href[1] = <<>>
                  THEN [rest EXCEPT !.exc = "ValueError"]
             ELSE [rest EXCEPT !.links = Append(@, base_url \o link[1].href[1])]

Refactored == "elections_scraper.py"
Legacy == "elections-scraper.py"

LinkExtractor(scr, cells) ==
    IF scr = Refactored THEN extract_all_district_links(cells)
    ELSE all_district_links(cells)

-----------------------------------------------------------------------------
(* district code *)

\* urlparse(url).query: what follows the first "?" of the part before the
\* first "#"
UrlQuery(url) ==
    LET nofrag == Split(url, "#")[1]
        k == IndexOf(nofrag, "?")
    IN  IF k = 0 THEN <<>> ELSE SubSeq(nofrag, k + 1, Len(nofrag))

\* parse_qs(query, keep_blank_values=True): a piece with an empty value is
\* kept
RECURSIVE QueryPairs_KeepBlank(_)
QueryPairs_KeepBlank(pieces) ==
    IF pieces = <<>> THEN <<>>
    ELSE LET piece == Head(pieces)
             k == IndexOf(piece, "=")
             rest == QueryPairs_KeepBlank(Tail(pieces))
         IN  IF k = 0 THEN rest
             ELSE <<[name |-> SubSeq(piece, 1, k - 1),
                     value |-> SubSeq(piece, k + 1, Len(piece))]>> \o rest

\* parse_qs(query): the name=value pieces separated by "&"; a piece without
\* "=" or with an empty value is dropped (keep_blank_values is False)
RECURSIVE QueryPairs(_)
QueryPairs(pieces) ==
    IF pieces = <<>> THEN <<>>
    ELSE LET piece == Head(pieces)
             k == IndexOf(piece, "=")
             rest == QueryPairs(Tail(pieces))
         IN  IF k = 0 \/ k = Len(piece) THEN rest
             ELSE <<[name |-> SubSeq(piece, 1, k - 1),
                     value |-> SubSeq(piece, k + 1, Len(piece))]>> \o rest

parse_qs(query) == QueryPairs(Split(query, "&"))

\* query_dict.get(parameter_name, [None])[0]: the first value given for the
\* parameter, None when it does not occur
RECURSIVE FirstValue(_, _)
FirstValue(pairs, name) ==
    IF pairs = <<>> THEN None
    ELSE IF Head(pairs).name = name THEN Some(Head(pairs).value)
    ELSE FirstValue(Tail(pairs), name)

parameter_name == <<"xobec">>

get_code_from_url(url) == FirstValue(parse_qs(UrlQuery(url)), parameter_name)

-----------------------------------------------------------------------------
(* Page Fetcher *)

\* What the site answers for a URL: ok is FALSE for a network failure or a
\* non-success status.  A district page is given by what the parser's
\* queries find in it, in document order:
\*   h3            texts of the h3 elements
\*   party_names   texts of the td.overflow_name cells
\*   vote_cells    texts of the td.cislo cells under the two vote headers
\*   sa2, sa3, sa6 text of the first td.cislo cell under that header, or None
\* The index page is given by its td.cislo cells.
FailedResponse ==
    [ok |-> FALSE, cells |-> <<>>, h3 |-> <<>>, party_names |-> <<>>,
     vote_cells |-> <<>>, sa2 |-> None, sa3 |-> None, sa6 |-> None]

IndexPage(cells) == [FailedResponse EXCEPT !.ok = TRUE, !.cells = cells]

DistrictPage(h3, names, votes, sa2, sa3, sa6) ==
    [ok |-> TRUE, cells |-> <<>>, h3 |-> h3, party_names |-> names,
     vote_cells |-> votes, sa2 |-> sa2, sa3 |-> sa3, sa6 |-> sa6]

\* get_soup: a failed request prints a diagnostic and calls sys.exit(1)
get_soup(url, response) ==
    IF response.ok
    THEN [exc |-> "", soup |-> response, out |-> <<>>]
    ELSE [exc |-> "SystemExit", soup |-> FailedResponse,
          out |-> <<Msg("ERROR", "Failed to fetch the page", url)>>]

-----------------------------------------------------------------------------
(* District Parser *)

district_label == <<"Obec", ":">>

\* soup.select_one('h3:-soup-contains("Obec:")'): the first h3 whose text
\* contains the label
RECURSIVE select_one(_)
select_one(h3) ==
    IF h3 = <<>> THEN None
    ELSE IF Contains(Head(h3), district_label) THEN Some(Head(h3))
    ELSE select_one(Tail(h3))

\* element.text.strip().split(":")[1]
NameOfHeading(text) ==
    LET parts == Split(Strip(text), ":") IN
    IF Len(parts) >= 2 THEN [exc |-> "", value |-> parts[2]]
    ELSE [exc |-> "IndexError", value |-> <<>>]

\* get_district_name: the name, or None when no heading matches
get_district_name(page) ==
    LET district_name_element == select_one(page.h3) IN
    IF district_name_element # None
    THEN LET r == NameOfHeading(district_name_element[1])
         IN  [exc |-> r.exc, value |-> Some(r.value)]
    ELSE [exc |-> "", value |-> None]

RECURSIVE StripAll(_)
StripAll(texts) ==
    IF texts = <<>> THEN <<>> ELSE <<Strip(Head(texts))>> \o StripAll(Tail(texts))

\* [int(clean_data(votes.get_text().strip())) for votes in ...]: the first
\* cell that is no integer raises ValueError
RECURSIVE ParseVotes(_)
ParseVotes(texts) ==
    IF texts = <<>> THEN [exc |-> "", values |-> <<>>]
    ELSE LET first == ParseInt(clean_data(Strip(Head(texts))))
             rest == ParseVotes(Tail(texts))
         IN  IF first.exc # "" THEN [exc |-> first.exc, values |-> <<>>]
             ELSE IF rest.exc # "" THEN rest
             ELSE [exc |-> "", values |-> <<first.value>> \o rest.values]

NoVotes == [none |-> TRUE, items |-> <<>>]
Votes(items) == [none |-> FALSE, items |-> items]

\* get_votes_of_parties of elections_scraper.py: None without party-name
\* cells; the vote cells are parsed in the else branch, outside the try
get_votes_of_parties(page) ==
    IF page.party_names = <<>>
    THEN [exc |-> "", value |-> NoVotes, out |-> <<>>]
    ELSE LET party_names == StripAll(page.party_names)
             votes_count == ParseVotes(page.vote_cells)
         IN  IF votes_count.exc # ""
             THEN [exc |-> votes_count.exc, value |-> NoVotes, out |-> <<>>]
             ELSE [exc |-> "",
                   value |-> Votes(DictZip(party_names, votes_count.values)),
                   out |-> <<>>]

\* get_votes_of_parties of elections-scraper.py: the whole body is in the
\* try; any exception prints an error and returns {}
get_votes_of_parties_legacy(page) ==
    LET party_names == StripAll(page.party_names)
        votes_count == ParseVotes(page.vote_cells)
    IN  IF votes_count.exc # ""
        THEN [exc |-> "", value |-> Votes(<<>>),
              out |-> <<Msg("ERROR", "extracting votes of parties", <<>>)>>]
        ELSE [exc |-> "",
              value |-> Votes(DictZip(party_names, votes_count.values)),
              out |-> <<>>]

EmptyDistrictData ==
    [location |-> <<>>, political_parties_votes |-> Votes(<<>>),
     count_registered |-> None, count_envelopes |-> None,
     count_valid |-> None]

registered_header == <<"sa2">>
envelopes_header == <<"sa3">>
valid_header == <<"sa6">>

\* one turn of the loop over the headers: soup.find gives the cell or None;
\* a cell (a Tag) is always truthy; ValueError of int() is caught
HeaderValue(cell, header, location, not_found) ==
    IF cell = None
    THEN [value |-> None,
          out |-> <<Msg(not_found, "Data cell not found for header", header)>>]
    ELSE LET r == ParseInt(clean_data(cell[1])) IN
         IF r.exc # ""
         THEN [value |-> None,
               out |-> <<Msg("ERROR", "extracting data for header", header)>>]
         ELSE [value |-> Some(r.value), out |-> <<>>]

\* one try around the whole loop over the headers: the first cell that is
\* no integer ends the loop, and the later counts stay None
extract_headers_data_OneTry(district_data, page) ==
    LET r2 == HeaderValue(page.sa2, registered_header, district_data.location,
                          "WARNING")
        r3 == HeaderValue(page.sa3, envelopes_header, district_data.location,
                          "WARNING")
        r6 == HeaderValue(page.sa6, valid_header, district_data.location,
                          "WARNING")
        stop2 == page.sa2 # None /\ r2.value = None
        stop3 == stop2 \/ (page.sa3 # None /\ r3.value = None)
    IN  [data |-> [district_data EXCEPT
                      !.count_registered = r2.value,
                      !.count_envelopes = IF stop2 THEN None ELSE r3.value,
                      !.count_valid = IF stop3 THEN None ELSE r6.value],
         out |-> r2.out \o (IF stop2 THEN <<>> ELSE r3.out)
                        \o (IF stop3 THEN <<>> ELSE r6.out)]

\* extract_headers_data: the three counts, each on its own
extract_headers_data(district_data, page) ==
    LET r2 == HeaderValue(page.sa2, registered_header, district_data.location,
                          "WARNING")
        r3 == HeaderValue(page.sa3, envelopes_header, district_data.location,
                          "WARNING")
        r6 == HeaderValue(page.sa6, valid_header, district_data.location,
                          "WARNING")
    IN  [data |-> [district_data EXCEPT !.count_registered = r2.value,
                                         !.count_envelopes = r3.value,
                                         !.count_valid = r6.value],
         out |-> r2.out \o r3.out \o r6.out]

\* the loop over the headers in global_data (elections-scraper.py): as
\* extract_headers_data, but a missing cell is reported as an ERROR
global_data_headers(district_data, page) ==
    LET r2 == HeaderValue(page.sa2, registered_header, district_data.location,
                          "ERROR")
        r3 == HeaderValue(page.sa3, envelopes_header, district_data.location,
                          "ERROR")
        r6 == HeaderValue(page.sa6, valid_header, district_data.location,
                          "ERROR")
    IN  [data |-> [district_data EXCEPT !.count_registered = r2.value,
                                         !.count_envelopes = r3.value,
                                         !.count_valid = r6.value],
         out |-> r2.out \o r3.out \o r6.out]

\* extract_district_data, once the name is known to be non-empty: the party
\* votes, then the three counts; an exception of get_votes_of_parties
\* passes through
DistrictDataNamed(name, votes, page) ==
    IF votes.exc # ""
    THEN [exc |-> votes.exc, value |-> None, out |-> votes.out]
    ELSE [exc |-> "",
          value |-> Some(extract_headers_data(
                             [EmptyDistrictData EXCEPT
                                 !.location = name,
                                 !.political_parties_votes = votes.value],
                             page).data),
          out |-> votes.out \o
                  extract_headers_data(
                      [EmptyDistrictData EXCEPT !.location = name], page).out]

DistrictDataOf(district_name, page) ==
    IF district_name.exc # ""
    THEN [exc |-> district_name.exc, value |-> None, out |-> <<>>]
    ELSE IF district_name.value = None \/ district_name.value[1] = <<>>
    THEN [exc |-> "", value |-> None, out |-> <<>>]
    ELSE DistrictDataNamed(district_name.value[1], get_votes_of_parties(page),
                           page)

\* no test of the name: a page without the heading gives a record with an
\* empty location
extract_district_data_NoGuard(page) ==
    IF get_district_name(page).exc # ""
    THEN [exc |-> get_district_name(page).exc, value |-> None, out |-> <<>>]
    ELSE DistrictDataNamed(IF get_district_name(page).value = None THEN <<>>
                           ELSE get_district_name(page).value[1],
                           get_votes_of_parties(page), page)

\* extract_district_data: None when the name is None or empty
extract_district_data(page) == DistrictDataOf(get_district_name(page), page)

-----------------------------------------------------------------------------
(* Aggregator: one turn of the loop over the links *)

\* results kept in a list: every record is appended
StoreDistrict_Append(data, code, district_data) ==
    Append(data, [key |-> code, value |-> district_data])

\* all_district_data.setdefault(code, district_data): the first record stays
StoreDistrict_KeepFirst(data, code, district_data) ==
    IF DictHas(data, code) THEN data ELSE DictSet(data, code, district_data)

\* all_district_data[code] = district_data
StoreDistrict(data, code, district_data) == DictSet(data, code, district_data)

\* a handler that catches nothing
except_Exception_Nothing(exc) == FALSE

\* a bare "except:", which catches SystemExit too
except_Exception_Bare(exc) == TRUE

\* "except Exception" catches every exception but those derived from
\* BaseException alone; sys.exit raises SystemExit, which is one of them
except_Exception(exc) ==
    exc \notin {"SystemExit", "KeyboardInterrupt", "GeneratorExit"}

\* lines 278-279: a record that was produced is stored under its code
StoreResult(d, code, data) ==
    IF d.exc # "" THEN [exc |-> d.exc, data |-> data, out |-> d.out]
    ELSE IF d.value # None
    THEN [exc |-> "", data |-> StoreDistrict(data, code, d.value[1]),
          out |-> d.out]
    ELSE [exc |-> "", data |-> data, out |-> d.out]

CodeNotFound(link, data) ==
    [exc |-> "", data |-> data,
     out |-> <<Msg("ERROR", "District code not found for link", link)>>]

DistrictBodyFetched(link, code, page, data) ==
    IF code = None THEN CodeNotFound(link, data)
    ELSE StoreResult(extract_district_data(page), code[1], data)

\* body of the try of extract_all_districts_data
DistrictBody(link, response, data) ==
    IF ~response.ok
    THEN [exc |-> get_soup(link, response).exc, data |-> data,
          out |-> get_soup(link, response).out]
    ELSE DistrictBodyFetched(link, get_code_from_url(link),
                             get_soup(link, response).soup, data)

LegacyStore(code, votes, h, data) ==
    [exc |-> "", data |-> StoreDistrict(data, code, h.data),
     out |-> votes.out \o h.out]

LegacyNamed(link, name, code, page, data) ==
    IF name.exc # "" THEN [exc |-> name.exc, data |-> data, out |-> <<>>]
    ELSE IF code = None THEN CodeNotFound(link, data)
    ELSE LegacyStore(code[1], get_votes_of_parties_legacy(page),
                     global_data_headers(
                         [EmptyDistrictData EXCEPT
                             !.location = name.value,
                             !.political_parties_votes =
                                 get_votes_of_parties_legacy(page).value],
                         page),
                     data)

LegacyFetched(link, district_name_element, page, data) ==
    IF district_name_element = None
    THEN [exc |-> "", data |-> data,
          out |-> <<Msg("ERROR", "District name not found for link", link)>>]
    ELSE LegacyNamed(link, NameOfHeading(district_name_element[1]),
                     get_code_from_url(link), page, data)

\* body of the try of global_data (elections-scraper.py): the name is
\* looked up before the code, and every district that has both is stored
DistrictBodyLegacy(link, response, data) ==
    IF ~response.ok
    THEN [exc |-> get_soup(link, response).exc, data |-> data,
          out |-> get_soup(link, response).out]
    ELSE LegacyFetched(link, select_one(response.h3),
                       get_soup(link, response).soup, data)

\* the handler of the try: a caught exception is printed and the loop goes
\* on with the next link
LoopHandler(b, district, data) ==
    IF b.exc # "" /\ except_Exception(b.exc)
    THEN [exc |-> "", data |-> data, caught |-> b.exc,
          out |-> b.out \o
                  <<Msg("Error", "An exception occurred for district",
                        district)>>]
    ELSE [exc |-> b.exc, data |-> b.data, caught |-> "", out |-> b.out]

\* district_name of global_data (elections-scraper.py) when the handler
\* runs: "" until the heading has been found and split
district_name(response) ==
    IF /\ response.ok
       /\ select_one(response.h3) # None
       /\ NameOfHeading(select_one(response.h3)[1]).exc = ""
    THEN NameOfHeading(select_one(response.h3)[1]).value
    ELSE <<>>

\* the handler names the link in elections_scraper.py and district_name in
\* elections-scraper.py
LoopTurn(scr, link, response, data) ==
    IF scr = Refactored
    THEN LoopHandler(DistrictBody(link, response, data), link, data)
    ELSE LoopHandler(DistrictBodyLegacy(link, response, data),
                     district_name(response), data)

-----------------------------------------------------------------------------
(* CSV Exporter *)

\* add_extension of elections_scraper.py: a name that already ends with the
\* extension is kept
add_extension(name, extension) ==
    IF EndsWith(name, <<".", extension>>) THEN name
    ELSE name \o <<".", extension>>

\* add_extension of elections-scraper.py: the extension is always added
add_extension_legacy(name, extension) == name \o <<".", extension>>

AddExtension(scr, name, extension) ==
    IF scr = Refactored THEN add_extension(name, extension)
    ELSE add_extension_legacy(name, extension)

\* os.path.join("Results", name)
ResultsPath(name) == <<"Results", "/">> \o name

CsvPath(scr, name) == ResultsPath(AddExtension(scr, name, "csv"))

\* party columns: df['political_parties_votes'].apply(pd.Series) gives one
\* column per party name, in the order the names are first met going
\* through the rows; None gives an empty Series
\* the union of the columns with a new name put first
RECURSIVE AddColumns_Prepend(_, _)
AddColumns_Prepend(columns, names) ==
    IF names = <<>> THEN columns
    ELSE AddColumns_Prepend(
             IF \E j \in 1..Len(columns) : columns[j] = Head(names)
             THEN columns ELSE <<Head(names)>> \o columns,
             Tail(names))

RECURSIVE AddColumns(_, _)
AddColumns(columns, names) ==
    IF names = <<>> THEN columns
    ELSE AddColumns(IF \E j \in 1..Len(columns) : columns[j] = Head(names)
                    THEN columns ELSE Append(columns, Head(names)),
                    Tail(names))

RECURSIVE PartyColumns(_)
PartyColumns(records) ==
    IF records = <<>> THEN <<>>
    ELSE AddColumns(
             PartyColumns(SubSeq(records, 1, Len(records) - 1)),
             DictKeys(records[Len(records)].political_parties_votes.items))

\* the value of a record in a party column: None when the district has no
\* such party
PartyValue(record, party) ==
    IF DictHas(record.political_parties_votes.items, party)
    THEN Some(DictGet(record.political_parties_votes.items, party))
    ELSE None

\* to_csv of a numeric column: a column without a missing value holds
\* integers; a missing value (NaN) makes the column float64, written with
\* ".0"; a missing value is written as the empty string
CountMissing(records, field) ==
    \E j \in 1..Len(records) : records[j][field] = None

\* the party columns are made together, from the rows of apply(pd.Series)
\* aligned to the union of the names and stacked: one district without one
\* of the parties puts a NaN in its row, and the stack of the rows, hence
\* every party column, is float64
AnyPartyMissing(records, parties) ==
    \E j \in 1..Len(records) :
        \E i \in 1..Len(parties) : PartyValue(records[j], parties[i]) = None

NumberCell(value, as_float) ==
    IF value = None THEN <<>>
    ELSE IF as_float THEN DecimalText(value[1]) \o <<".", "0">>
    ELSE DecimalText(value[1])

RECURSIVE PartyCells(_, _, _)
PartyCells(record, parties, as_float) ==
    IF parties = <<>> THEN <<>>
    ELSE <<NumberCell(PartyValue(record, Head(parties)), as_float)>>
         \o PartyCells(record, Tail(parties), as_float)

CsvRow(code, record, records, parties) ==
    <<code, record.location,
      NumberCell(record.count_registered,
                 CountMissing(records, "count_registered")),
      NumberCell(record.count_envelopes,
                 CountMissing(records, "count_envelopes")),
      NumberCell(record.count_valid,
                 CountMissing(records, "count_valid"))>>
    \o PartyCells(record, parties, AnyPartyMissing(records, parties))

RECURSIVE CsvRows(_, _, _)
CsvRows(entries, records, parties) ==
    IF entries = <<>> THEN <<>>
    ELSE <<CsvRow(Head(entries).key, Head(entries).value, records, parties)>>
         \o CsvRows(Tail(entries), records, parties)

\* df.to_csv(file_path, index_label='code', encoding="utf-8-sig", sep=",")
CsvContent(data) ==
    LET records == DictValues(data)
        parties == PartyColumns(records)
    IN  [bom |-> TRUE,
         header |-> <<<<"code">>, <<"location">>, <<"count_registered">>,
                      <<"count_envelopes">>, <<"count_valid">>>> \o parties,
         rows |-> CsvRows(data, records, parties)]

FileExists(files, path) == \E f \in files : f.path = path

\* open(path, "w") and write: the file at the path holds the new content
WriteFile(files, path, content) ==
    {f \in files : f.path # path} \cup {[path |-> path, content |-> content]}

\* no check for an existing file: the file is written over
CsvToPath_Overwrite(data, file_path, files) ==
    [exc |-> "", dir |-> TRUE,
     files |-> WriteFile(files, file_path, CsvContent(data)),
     out |-> <<Msg("INFO", "CSV FILE SUCCESSFULLY CREATED", file_path)>>]

\* get_csv: selecting the fixed columns of the frame of an empty dict raises
\* KeyError; then the directory is made, and an existing file raises
\* FileExistsError before anything is written
CsvToPath(data, file_path, files) ==
    IF FileExists(files, file_path)
    THEN [exc |-> "FileExistsError", dir |-> TRUE, files |-> files,
          out |-> <<>>]
    ELSE [exc |-> "", dir |-> TRUE,
          files |-> WriteFile(files, file_path, CsvContent(data)),
          out |-> <<Msg("INFO", "CSV FILE SUCCESSFULLY CREATED", file_path)>>]

\* the directory is made first, then the columns are selected
get_csv_MakedirsFirst(scr, data, name, dir, files) ==
    IF data = <<>>
    THEN [exc |-> "KeyError", dir |-> TRUE, files |-> files, out |-> <<>>]
    ELSE CsvToPath(data, CsvPath(scr, name), files)

get_csv(scr, data, name, dir, files) ==
    IF data = <<>>
    THEN [exc |-> "KeyError", dir |-> dir, files |-> files, out |-> <<>>]
    ELSE CsvToPath(data, CsvPath(scr, name), files)

-----------------------------------------------------------------------------
(* Chart Renderer *)

TopCount == 10

\* party_votes[party] = party_votes.get(party, 0) + votes, over the items
\* of one district
RECURSIVE AddVotes(_, _)
AddVotes(party_votes, items) ==
    IF items = <<>> THEN party_votes
    ELSE LET party == Head(items).key
             sofar == IF DictHas(party_votes, party)
                      THEN DictGet(party_votes, party) ELSE 0
         IN  AddVotes(DictSet(party_votes, party, sofar + Head(items).value),
                      Tail(items))

\* the loop over data.values(): None has no items(), which raises
\* AttributeError
RECURSIVE SumVotes(_)
SumVotes(records) ==
    IF records = <<>> THEN [exc |-> "", party_votes |-> <<>>]
    ELSE LET rest == SumVotes(SubSeq(records, 1, Len(records) - 1))
             votes == records[Len(records)].political_parties_votes
         IN  IF rest.exc # "" THEN rest
             ELSE IF votes.none
             THEN [exc |-> "AttributeError", party_votes |-> <<>>]
             ELSE [exc |-> "",
                   party_votes |-> AddVotes(rest.party_votes, votes.items)]

\* a sort that is not stable: an item goes before the items of equal value
RECURSIVE InsertByValue_BeforeEqual(_, _)
InsertByValue_BeforeEqual(sorted, item) ==
    IF sorted = <<>> THEN <<item>>
    ELSE IF Head(sorted).value > item.value
    THEN <<Head(sorted)>> \o InsertByValue_BeforeEqual(Tail(sorted), item)
    ELSE <<item>> \o sorted

\* sorted(items, key=value, reverse=True): stable, so items of equal value
\* keep their order
RECURSIVE InsertByValue(_, _)
InsertByValue(sorted, item) ==
    IF sorted = <<>> THEN <<item>>
    ELSE IF Head(sorted).value >= item.value
    THEN <<Head(sorted)>> \o InsertByValue(Tail(sorted), item)
    ELSE <<item>> \o sorted

RECURSIVE SortDescending(_)
SortDescending(items) ==
    IF items = <<>> THEN <<>>
    ELSE InsertByValue(SortDescending(SubSeq(items, 1, Len(items) - 1)),
                       items[Len(items)])

top_10_parties(party_votes) ==
    LET sorted == SortDescending(party_votes) IN
    SubSeq(sorted, 1, IF Len(sorted) < TopCount THEN Len(sorted) ELSE TopCount)

\* os.path.splitext(name)[0]: the name without its last extension
SplitextRoot(name) ==
    IF \E k \in 2..Len(name) : name[k] = "."
    THEN LET k == CHOOSE j \in 2..Len(name) :
                      name[j] = "." /\ \A m \in (j + 1)..Len(name) : name[m] # "."
         IN  SubSeq(name, 1, k - 1)
    ELSE name

PlotPath(scr, name) ==
    IF scr = Refactored
    THEN ResultsPath(add_extension(<<"Top_10_Parties_of_">> \o SplitextRoot(name),
                                   "png"))
    ELSE ResultsPath(add_extension_legacy(<<"Top_10_Parties_of_">> \o name,
                                          "png"))

\* plot_top_10_parties: savefig writes the bars, replacing an earlier chart
PlotTotals(totals, file_path, dir, files) ==
    IF totals.exc # ""
    THEN [exc |-> totals.exc, files |-> files, out |-> <<>>]
    ELSE IF ~dir
    THEN [exc |-> "FileNotFoundError", files |-> files, out |-> <<>>]
    ELSE [exc |-> "",
          files |-> WriteFile(files, file_path,
                              top_10_parties(totals.party_votes)),
          out |-> <<Msg("INFO", "BAR PLOT SUCCESSFULLY CREATED", file_path)>>]

plot_top_10_parties(scr, data, name, dir, files) ==
    PlotTotals(SumVotes(DictValues(data)), PlotPath(scr, name), dir, files)

-----------------------------------------------------------------------------
(* the inputs of a run *)

MaxCells == 2

\* how many times the script is started, one run after the other
MaxRuns == 2

index_url == base_url \o <<"ps32", "?", "xkraj", "=", "1">>

Hrefs ==
    { <<"ps311", "?", "xobec", "=", "1">>,
      <<"ps311", "?", "xnumnuts", "=", "7", "&", "xobec", "=", "1">>,
      <<"ps311", "?", "xobec", "=", "2">>,
      <<"ps311", "?", "xobec", "=">>,
      <<"ps311", "?", "xnumnuts", "=", "7">> }

Cells == {NoLinkCell, NoHrefCell, HrefCell(<<>>)} \cup {HrefCell(h) : h \in Hrefs}

\* the sequences over S of length at most n
SeqsUpTo(S, n) == UNION {[1..k -> S] : k \in 0..n}

IndexResponses ==
    {FailedResponse} \cup {IndexPage(c) : c \in SeqsUpTo(Cells, MaxCells)}

\* the URLs an index page links to
LinkedUrls(cells) ==
    {base_url \o cells[j].a[1].href[1] :
        j \in {k \in 1..Len(cells) :
                  /\ cells[k].a # None
                  /\ cells[k].a[1].href # None
                  /\ cells[k].a[1].href[1] # <<>>}}

Ten == <<"1", "nbsp", "0">>

H3Options ==
    { <<>>,
      <<<<"Obec", ":", " ", "a">>>>,
      <<<<"Obec", ":">>>>,
      <<<<"Kraj", ":", " ", "k">>, <<" ", "Obec", ":", " ", "a", ":", "b", " ">>>> }

PartyNameOptions ==
    { <<>>, <<<<"A">>>>, <<<<"A">>, <<" ", "B">>>>, <<<<"B">>, <<"A">>>> }

VoteCellOptions ==
    { <<>>, <<Ten>>, <<Ten, <<"3">>>>, <<<<"3">>, <<"3">>>>, <<<<"x">>>>,
      <<Ten, <<"1", " ", "0">>>> }

CountCellOptions == {None, Some(<<"7">>), Some(<<"x">>)}

AllDistrictPages ==
    {DistrictPage(h, n, v, c2, c3, c6) :
        h \in H3Options, n \in PartyNameOptions, v \in VoteCellOptions,
        c2 \in CountCellOptions, c3 \in CountCellOptions,
        c6 \in CountCellOptions}

NominalPage ==
    DistrictPage(<<<<"Obec", ":", " ", "a">>>>, <<<<"A">>, <<" ", "B">>>>,
                 <<Ten, <<"3">>>>, Some(<<"7">>), Some(<<"7">>), Some(<<"7">>))

\* a page with more parties than the chart has bars, some with equal votes
ManyPartiesPage ==
    [NominalPage EXCEPT
        !.party_names = << <<"A">>, <<"B">>, <<"C">>, <<"D">>, <<"E">>, <<"F">>,
                           <<"G">>, <<"H">>, <<"I">>, <<"J">>, <<"K">> >>,
        !.vote_cells = << <<"3">>, Ten, <<"3">>, <<"5">>, <<"5">>, <<"7">>,
                          <<"7">>, <<"9">>, <<"8">>, <<"6">>, <<"3">> >>]

\* the pages of a site whose index has several cells: the nominal page and
\* the pages that differ from it in one respect
CoreDistrictPages ==
    { NominalPage,
      ManyPartiesPage,
      [NominalPage EXCEPT !.party_names = <<<<"A">>>>, !.vote_cells = <<Ten>>],
      [NominalPage EXCEPT !.party_names = <<<<"B">>, <<"A">>>>,
                          !.sa2 = Some(<<"1", "nbsp", "2">>)],
      [NominalPage EXCEPT !.h3 = <<>>],
      [NominalPage EXCEPT !.vote_cells = <<<<"x">>>>],
      [NominalPage EXCEPT !.party_names = <<>>, !.vote_cells = <<>>],
      [NominalPage EXCEPT !.sa2 = None, !.sa3 = Some(<<"x">>)] }

DistrictResponses(cells) ==
    {FailedResponse} \cup
    (IF Len(cells) <= 1 THEN AllDistrictPages \cup CoreDistrictPages
     ELSE CoreDistrictPages)

\* a CSV file an earlier run left behind
EarlierData ==
    <<[key |-> <<"9">>,
       value |-> [EmptyDistrictData EXCEPT
                     !.location = <<" ", "z">>,
                     !.political_parties_votes =
                         Votes(<<[key |-> <<"Z">>, value |-> 5]>>),
                     !.count_valid = Some(5)]]>>

EarlierCsv ==
    [path |-> CsvPath(Refactored, <<"out">>), content |-> CsvContent(EarlierData)]

EarlierPng ==
    [path |-> PlotPath(Refactored, <<"out">>),
     content |-> top_10_parties(SumVotes(DictValues(EarlierData)).party_votes)]

-----------------------------------------------------------------------------
(* the run *)

Init ==
    /\ script \in {Refactored, Legacy}
    /\ filename = <<"out">>
    /\ index_response \in IndexResponses
    /\ site \in [LinkedUrls(index_response.cells) ->
                     DistrictResponses(index_response.cells)]
    /\ \/ results_dir = FALSE /\ csv_files = {} /\ png_files = {}
       \/ results_dir = TRUE /\ csv_files = {EarlierCsv}
                              /\ png_files = {EarlierPng}
    /\ runs = 1
    /\ csv_before = csv_files
    /\ png_before = png_files
    /\ pc = "get_index"
    /\ error = ""
    /\ soup = FailedResponse
    /\ links = <<>>
    /\ pos = 0
    /\ all_district_data = <<>>
    /\ stdout = <<>>
    /\ requested = <<>>

\* how a run ends on an exception nothing catches: sys.exit(1) ends the
\* process with status 1, any other exception with a traceback and status 1
EndedBy(exc) == IF exc = "SystemExit" THEN "exited" ELSE "crashed"

\* elections_scraper: soup = get_soup(url)
IndexFetched(g) ==
    /\ requested' = Append(requested, index_url)
    /\ stdout' = stdout \o
                 <<Msg("INFO", "DOWNLOADING DATA FROM THE SELECTED URL",
                       index_url)>> \o g.out
    /\ soup' = g.soup
    /\ error' = g.exc
    /\ pc' = IF g.exc = "" THEN "extract_links" ELSE EndedBy(g.exc)

GetIndex ==
    /\ pc = "get_index"
    /\ IndexFetched(get_soup(index_url, index_response))
    /\ UNCHANGED <<runs, csv_before, png_before, script, filename,
                   index_response, site, links, pos,
                   all_district_data, results_dir, csv_files, png_files>>

\* extract_all_districts_data: links = extract_all_district_links(soup)
LinksExtracted(r) ==
    /\ stdout' = stdout \o r.out
    /\ links' = IF r.exc = "" THEN r.links ELSE links
    /\ error' = r.exc
    /\ pc' = IF r.exc = "" THEN "loop" ELSE EndedBy(r.exc)

ExtractLinks ==
    /\ pc = "extract_links"
    /\ LinksExtracted(LinkExtractor(script, soup.cells))
    /\ UNCHANGED <<runs, csv_before, png_before, script, filename,
                   index_response, site, soup, pos,
                   all_district_data, requested, results_dir, csv_files,
                   png_files>>

\* one turn of the for loop: fetch the page of the next link, parse it and
\* store its record
TurnDone(link, r) ==
    /\ requested' = Append(requested, link)
    /\ stdout' = stdout \o r.out
    /\ all_district_data' = r.data
    /\ error' = r.exc
    /\ pos' = IF r.exc = "" THEN pos + 1 ELSE pos
    /\ pc' = IF r.exc = "" THEN "loop" ELSE EndedBy(r.exc)

NextDistrict ==
    /\ pc = "loop"
    /\ pos < Len(links)
    /\ TurnDone(links[pos + 1],
                LoopTurn(script, links[pos + 1], site[links[pos + 1]],
                         all_district_data))
    /\ UNCHANGED <<runs, csv_before, png_before, script, filename,
                   index_response, site, soup, links,
                   results_dir, csv_files, png_files>>

\* the loop is over: return all_district_data
ReturnData ==
    /\ pc = "loop"
    /\ pos = Len(links)
    /\ pc' = "get_csv"
    /\ UNCHANGED <<runs, csv_before, png_before, script, filename,
                   index_response, site, error, soup, links,
                   pos, all_district_data, stdout, requested, results_dir,
                   csv_files, png_files>>

\* the exception of get_csv is put aside and the chart is rendered next
CsvDone_GoOn(r) ==
    /\ results_dir' = r.dir
    /\ csv_files' = r.files
    /\ stdout' = stdout \o r.out
    /\ error' = r.exc
    /\ pc' = "plot"

\* elections_scraper: get_csv(dict_of_data, filename)
CsvDone(r) ==
    /\ results_dir' = r.dir
    /\ csv_files' = r.files
    /\ stdout' = stdout \o r.out
    /\ error' = r.exc
    /\ pc' = IF r.exc = "" THEN "plot" ELSE EndedBy(r.exc)

GetCsv ==
    /\ pc = "get_csv"
    /\ CsvDone(get_csv(script, all_district_data, filename, results_dir,
                       csv_files))
    /\ UNCHANGED <<runs, csv_before, png_before, script, filename,
                   index_response, site, soup, links, pos,
                   all_district_data, requested, png_files>>

\* elections_scraper: plot_top_10_parties(dict_of_data, filename)
PlotDone(r) ==
    /\ png_files' = r.files
    /\ stdout' = stdout \o r.out \o
                 (IF r.exc = ""
                  THEN <<Msg("INFO", "PROCESS SUCCESSFULLY FINISHED", <<>>)>>
                  ELSE <<>>)
    /\ error' = r.exc
    /\ pc' = IF r.exc = "" THEN "done" ELSE EndedBy(r.exc)

PlotTop10 ==
    /\ pc = "plot"
    /\ PlotDone(plot_top_10_parties(script, all_district_data, filename,
                                    results_dir, png_files))
    /\ UNCHANGED <<runs, csv_before, png_before, script, filename,
                   index_response, site, soup, links, pos,
                   all_district_data, requested, results_dir, csv_files>>

Running == pc \notin {"done", "exited", "crashed"}

\* the exit status of a run that is over
ExitStatus == IF pc = "done" THEN 0 ELSE 1

\* the script is started again, with the same arguments, once the run is
\* over: nothing but the files under Results passes from one run to the next
StartAgain ==
    /\ ~Running
    /\ runs < MaxRuns
    /\ runs' = runs + 1
    /\ csv_before' = csv_files
    /\ png_before' = png_files
    /\ pc' = "get_index"
    /\ error' = ""
    /\ soup' = FailedResponse
    /\ links' = <<>>
    /\ pos' = 0
    /\ all_district_data' = <<>>
    /\ stdout' = <<>>
    /\ requested' = <<>>
    /\ UNCHANGED <<script, filename, index_response, site, results_dir,
                   csv_files, png_files>>

Next ==
    \/ GetIndex
    \/ ExtractLinks
    \/ NextDistrict
    \/ ReturnData
    \/ GetCsv
    \/ PlotTop10
    \/ StartAgain

Spec == Init /\ [][Next]_vars

-----------------------------------------------------------------------------
(* what the run owes to each link, read off the site *)

\* what the body of the try raises for the k-th link
BodyExc(k) ==
    IF script = Refactored
    THEN DistrictBody(links[k], site[links[k]], <<>>).exc
    ELSE DistrictBodyLegacy(links[k], site[links[k]], <<>>).exc

\* the loop has taken the k-th link
Taken(k) == Len(requested) >= k + 1

NonFetchError(k) == BodyExc(k) \notin {"", "SystemExit"}

Printed(level, item) ==
    \E j \in 1..Len(stdout) : stdout[j].level = level /\ stdout[j].item = item

-----------------------------------------------------------------------------
(* C1 *)

\* C1: when processing a link raises an error other than the fatal fetch
\* failure, the loop catches it, prints it with the link and goes on: the
\* loop gets past that link, and unless a later fetch fails it takes every
\* link and returns.
C1_LoopSurvivesErrors ==
    \A k \in 1..Len(links) :
        (Taken(k) /\ NonFetchError(k)) =>
            /\ pos >= k
            /\ Printed("Error", IF script = Refactored THEN links[k]
                                 ELSE district_name(site[links[k]]))
            /\ pc \in {"loop", "get_csv", "plot", "done", "exited", "crashed"}
            /\ (pc \in {"get_csv", "plot", "done", "crashed"} =>
                    /\ pos = Len(links)
                    /\ requested = <<index_url>> \o links)
            /\ (pc = "exited" => ~site[links[pos + 1]].ok)

\* a run that ended well although a link before the last raised an error
C1_Witness ==
    /\ pc = "done"
    /\ \E k \in 1..(Len(links) - 1) : NonFetchError(k)

-----------------------------------------------------------------------------
(* C2 *)

FatalAfter(n) ==
    /\ pc = "exited"
    /\ error = "SystemExit"
    /\ ExitStatus = 1
    /\ Len(requested) = n
    /\ csv_files = csv_before
    /\ png_files = png_before

\* C2: a failed fetch, of the index page or of a district page, ends the
\* process at once with a non-zero status: nothing more is requested, and
\* the run writes neither the CSV nor the chart.
C2_FetchFailureIsFatal ==
    /\ (Len(requested) >= 1 /\ ~index_response.ok) => FatalAfter(1)
    /\ \A k \in 1..Len(links) :
           (Taken(k) /\ ~site[links[k]].ok) => FatalAfter(k + 1)

\* the first of two district fetches failed: the second page, which the
\* site would have served, was never requested
C2_Witness ==
    /\ pc = "exited"
    /\ Len(links) = 2
    /\ pos = 0
    /\ site[links[2]].ok
    /\ Len(requested) = 2

-----------------------------------------------------------------------------
(* C3 *)

CodeOf(k) == get_code_from_url(links[k])

PageOf(k) == site[links[k]]

\* the page has a location heading with a name after the colon
HasName(page) ==
    /\ select_one(page.h3) # None
    /\ NameOfHeading(select_one(page.h3)[1]).value # <<>>

NameOf(page) == NameOfHeading(select_one(page.h3)[1]).value

\* the run of the loop for the k-th link alone, from an empty ResultSet
Alone(k) == LoopTurn(script, links[k], PageOf(k), <<>>)

\* the k-th link yields a record
Produces(k) == Alone(k).exc = "" /\ Alone(k).data # <<>>

RecordOf(k) == Alone(k).data[1].value

\* C3: every district page that was fetched, whose link carries a code and
\* which has a location name, has a record under its code once the loop is
\* past it, whatever is wrong with its other fields.
C3_RecordWheneverCodeAndName ==
    \A k \in 1..pos :
        (PageOf(k).ok /\ CodeOf(k) # None /\ HasName(PageOf(k))) =>
            DictHas(all_district_data, CodeOf(k)[1])

-----------------------------------------------------------------------------
(* C4 *)

\* what a count must be: the integer of the cell, None when the cell is
\* missing or holds no integer
ExpectedCount(cell) ==
    IF cell # None /\ ParseInt(clean_data(cell[1])).exc = ""
    THEN Some(ParseInt(clean_data(cell[1])).value)
    ELSE None

\* the page has a code, a location name and integer votes
WellFormedButCounts(k) ==
    /\ PageOf(k).ok
    /\ CodeOf(k) # None
    /\ HasName(PageOf(k))
    /\ ParseVotes(PageOf(k).vote_cells).exc = ""

CountsAsExpected(record, page) ==
    /\ record.count_registered = ExpectedCount(page.sa2)
    /\ record.count_envelopes = ExpectedCount(page.sa3)
    /\ record.count_valid = ExpectedCount(page.sa6)
    /\ record.location = NameOf(page)
    /\ record.political_parties_votes.items =
           DictZip(StripAll(page.party_names),
                   ParseVotes(page.vote_cells).values)

\* C4: the three counts are extracted independently.  For the link the loop
\* took last, if its page has a code, a name and integer votes, its record
\* is in the ResultSet, each count whose cell is missing or no integer is
\* None, every other count is its cell's integer, and the location and the
\* party votes are those of the page.
C4_CountsIndependent ==
    (pos >= 1 /\ WellFormedButCounts(pos)) =>
        /\ DictHas(all_district_data, CodeOf(pos)[1])
        /\ CountsAsExpected(DictGet(all_district_data, CodeOf(pos)[1]),
                            PageOf(pos))

\* registered is missing, envelopes is no integer, valid is an integer
C4_Witness ==
    /\ pc = "get_csv"
    /\ pos >= 1
    /\ WellFormedButCounts(pos)
    /\ PageOf(pos).sa2 = None
    /\ PageOf(pos).sa3 # None /\ ExpectedCount(PageOf(pos).sa3) = None
    /\ ExpectedCount(PageOf(pos).sa6) # None
    /\ DictGet(all_district_data, CodeOf(pos)[1]).count_valid
           = ExpectedCount(PageOf(pos).sa6)

-----------------------------------------------------------------------------
(* C5 *)

GoodCell(cell) ==
    cell.a # None /\ cell.a[1].href # None /\ cell.a[1].href[1] # <<>>

\* number of cells of the index page that yield a link
GoodCells == Cardinality({j \in 1..Len(soup.cells) : GoodCell(soup.cells[j])})

AllProduce == \A k \in 1..Len(links) : Produces(k)

DistinctCodes == {CodeOf(k) : k \in 1..Len(links)}

\* C5 as the specification states it: when every district page yields a record, the ResultSet
\* the loop returns has as many entries as the index page has cells that
\* yield a link.
C5_OneEntryPerLink ==
    (pc = "get_csv" /\ AllProduce) => Len(all_district_data) = GoodCells

\* C5 as the code has it: when every district page yields a record, the ResultSet
\* the loop returns has one entry per distinct district code of the links;
\* that is one per cell that yields a link when no two links share a code.
C5_OneEntryPerCode ==
    (pc = "get_csv" /\ AllProduce) =>
        /\ Len(links) = GoodCells
        /\ Len(all_district_data) = Cardinality(DistinctCodes)
        /\ (Cardinality(DistinctCodes) = Len(links) =>
               Len(all_district_data) = GoodCells)

\* two different links with the same code
C5_Witness ==
    /\ pc = "get_csv"
    /\ AllProduce
    /\ Len(links) = 2
    /\ links[1] # links[2]
    /\ Len(all_district_data) = 1

-----------------------------------------------------------------------------
(* C6 *)

\* the links taken so far that yield a record for the code
Producers(code) ==
    {k \in 1..pos : Produces(k) /\ CodeOf(k) = Some(code)}

Last(K) == CHOOSE k \in K : \A m \in K : m <= k

\* C6: the record under a code is the one of the last link, among those
\* taken so far, that has the code and yields a record; no code has two
\* entries, and every link that yields a record has its code in the
\* ResultSet.
C6_LastWriteWins ==
    /\ \A j \in 1..Len(all_district_data) :
           /\ Producers(all_district_data[j].key) # {}
           /\ all_district_data[j].value =
                  RecordOf(Last(Producers(all_district_data[j].key)))
           /\ \A m \in 1..Len(all_district_data) :
                  all_district_data[m].key = all_district_data[j].key => m = j
    /\ \A k \in 1..pos :
           Produces(k) => DictHas(all_district_data, CodeOf(k)[1])

\* two links with one code whose pages give different records
C6_Witness ==
    /\ pc = "get_csv"
    /\ Len(links) = 2
    /\ Produces(1) /\ Produces(2)
    /\ CodeOf(1) = CodeOf(2)
    /\ RecordOf(1) # RecordOf(2)
    /\ Len(all_district_data) = 1
    /\ all_district_data[1].value = RecordOf(2)

-----------------------------------------------------------------------------
(* C7 *)

RECURSIVE ExpectedLinks(_)
\* the base URL joined to the href of each cell that has a link with a
\* non-empty href, in document order
ExpectedLinks(cells) ==
    IF cells = <<>> THEN <<>>
    ELSE IF GoodCell(cells[Len(cells)])
         THEN Append(ExpectedLinks(SubSeq(cells, 1, Len(cells) - 1)),
                     base_url \o cells[Len(cells)].a[1].href[1])
         ELSE ExpectedLinks(SubSeq(cells, 1, Len(cells) - 1))

\* the run ended in the Link Extractor: no district was requested, and the
\* exception is none that the export of an empty ResultSet raises
AbortedInExtraction ==
    /\ pc = "crashed"
    /\ Len(requested) = 1
    /\ links = <<>>
    /\ error \in {"AttributeError", "ValueError"}

\* C7: once the index page has been fetched and the Link Extractor has run,
\* the links are those of the cells with a link and a non-empty href, in
\* document order with duplicates; a cell without a link or without a
\* non-empty href is skipped with a warning, and the run was not aborted.
C7_BadCellsSkipped ==
    (index_response.ok /\ pc \notin {"get_index", "extract_links"}) =>
        /\ links = ExpectedLinks(soup.cells)
        /\ (GoodCells < Len(soup.cells) =>
               \E j \in 1..Len(stdout) : stdout[j].level = "WARNING")
        /\ ~AbortedInExtraction

-----------------------------------------------------------------------------
(* C8 *)

\* C8: when Results/<name>.csv exists at the start of a run, the run does
\* not get past get_csv and no CSV file changes; get_csv, when it is called
\* with a non-empty ResultSet, ends the run with FileExistsError.  The
\* second of two runs with the same output name meets the file the first
\* one wrote and leaves it as it is.
C8_ExistingFileKept ==
    FileExists(csv_before, CsvPath(script, filename)) =>
        /\ csv_files = csv_before
        /\ pc \notin {"plot", "done"}
        /\ (pc = "crashed" /\ Len(requested) = Len(links) + 1
               /\ all_district_data # <<>>
               => error = "FileExistsError")

\* the second run fails on the file that the first run wrote
C8_Witness ==
    /\ runs = 2
    /\ pc = "crashed"
    /\ error = "FileExistsError"
    /\ all_district_data # <<>>
    /\ csv_files = {[path |-> CsvPath(script, filename),
                     content |-> CsvContent(all_district_data)]}
    /\ EarlierCsv \notin csv_files

-----------------------------------------------------------------------------
(* C9 *)

\* a page with a code and a location name but no party-name cell
Partyless(k) ==
    /\ PageOf(k).ok
    /\ CodeOf(k) # None
    /\ HasName(PageOf(k))
    /\ PageOf(k).party_names = <<>>

\* C9: a district page with a code and a location name but no party-name
\* cell has its record in the ResultSet, and the run does not fail on it:
\* the only failure left after the loop is the guard of an existing CSV
\* file.
C9_NoPartiesNotFatal ==
    \A k \in 1..pos :
        Partyless(k) =>
            /\ DictHas(all_district_data, CodeOf(k)[1])
            /\ (pc = "crashed" => error = "FileExistsError")

-----------------------------------------------------------------------------
(* C10 *)

\* a message says that the k-th link was skipped
SkipPrinted(k) ==
    \E j \in 1..Len(stdout) :
        /\ stdout[j].level # "INFO"
        /\ stdout[j].text \in {"District code not found for link",
                               "District name not found for link",
                               "An exception occurred for district"}
        /\ stdout[j].item \in {links[k], district_name(PageOf(k))}

FieldPrinted(header) ==
    \E j \in 1..Len(stdout) :
        stdout[j].level # "INFO" /\ stdout[j].item = header

\* C10: nothing is dropped silently.  Every link the loop is past that gave
\* no record has a message saying so, every cell of the index page that
\* gave no link has a warning, and every count left None in the record of
\* the link taken last has a message for its header.
C10_EveryDropPrinted ==
    /\ \A k \in 1..pos : (PageOf(k).ok /\ ~Produces(k)) => SkipPrinted(k)
    /\ (index_response.ok /\ pc \notin {"get_index", "extract_links"}
          /\ ~AbortedInExtraction /\ GoodCells < Len(soup.cells)) =>
             \E j \in 1..Len(stdout) : stdout[j].level = "WARNING"
    /\ (pos >= 1 /\ Produces(pos)) =>
          /\ RecordOf(pos).count_registered = None =>
                 FieldPrinted(registered_header)
          /\ RecordOf(pos).count_envelopes = None =>
                 FieldPrinted(envelopes_header)
          /\ RecordOf(pos).count_valid = None => FieldPrinted(valid_header)

-----------------------------------------------------------------------------
(* C11 *)

Records == DictValues(all_district_data)

HasParty(record, party) ==
    \E i \in 1..Len(record.political_parties_votes.items) :
        record.political_parties_votes.items[i].key = party

\* the votes of a party in one record: 0 when the record has no such party
VotesIn(record, party) ==
    IF HasParty(record, party)
    THEN LET i == CHOOSE i \in 1..Len(record.political_parties_votes.items) :
                      record.political_parties_votes.items[i].key = party
         IN  record.political_parties_votes.items[i].value
    ELSE 0

RECURSIVE TotalOver(_, _)
TotalOver(records, party) ==
    IF records = <<>> THEN 0
    ELSE VotesIn(Head(records), party) + TotalOver(Tail(records), party)

Total(party) == TotalOver(Records, party)

PartiesOf(record) ==
    {record.political_parties_votes.items[i].key :
        i \in 1..Len(record.political_parties_votes.items)}

Parties == UNION {PartiesOf(Records[j]) : j \in 1..Len(Records)}

\* the first place a party is met going through the records: the record,
\* then the position in the record
FirstRecord(party) ==
    CHOOSE j \in 1..Len(Records) :
        /\ HasParty(Records[j], party)
        /\ \A m \in 1..(j - 1) : ~HasParty(Records[m], party)

PlaceIn(record, party) ==
    CHOOSE i \in 1..Len(record.political_parties_votes.items) :
        record.political_parties_votes.items[i].key = party

MetBefore(p, q) ==
    \/ FirstRecord(p) < FirstRecord(q)
    \/ /\ FirstRecord(p) = FirstRecord(q)
       /\ PlaceIn(Records[FirstRecord(p)], p)
              < PlaceIn(Records[FirstRecord(p)], q)

\* the bars of the chart the run wrote
Bars ==
    (CHOOSE f \in png_files : f.path = PlotPath(script, filename)).content

BarParties == {Bars[i].key : i \in 1..Len(Bars)}

\* C11: the chart of a finished run has one bar for each of the
\* min(10, number of parties) parties with the largest totals, the total of
\* a party being the sum of its votes over all records of the ResultSet;
\* the bars go by descending total, and parties of equal total, among the
\* bars and at the cut after the tenth, go in the order they were first met
\* across the records.
C11_ChartTotalsTop10 ==
    pc = "done" =>
        /\ Len(Bars) = (IF Cardinality(Parties) < 10
                        THEN Cardinality(Parties) ELSE 10)
        /\ \A i \in 1..Len(Bars) :
              /\ Bars[i].key \in Parties
              /\ Bars[i].value = Total(Bars[i].key)
        /\ \A i, j \in 1..Len(Bars) :
              i < j =>
                 /\ Bars[i].key # Bars[j].key
                 /\ Bars[i].value >= Bars[j].value
                 /\ (Bars[i].value = Bars[j].value =>
                        MetBefore(Bars[i].key, Bars[j].key))
        /\ \A p \in Parties \ BarParties :
              \A i \in 1..Len(Bars) :
                 \/ Bars[i].value > Total(p)
                 \/ Bars[i].value = Total(p) /\ MetBefore(Bars[i].key, p)

\* two districts, more than ten parties, a party in both districts, two
\* bars of equal total, and a party left out whose total equals the last
\* bar's
C11_Witness ==
    /\ pc = "done"
    /\ Len(Records) = 2
    /\ Cardinality(Parties) > 10
    /\ Len(Bars) = 10
    /\ \E p \in Parties :
          VotesIn(Records[1], p) > 0 /\ VotesIn(Records[2], p) > 0
    /\ \E i \in 1..9 : Bars[i].value = Bars[i + 1].value
    /\ \E p \in Parties \ BarParties : Total(p) = Bars[10].value

-----------------------------------------------------------------------------
(* C12 *)

\* get_csv of this run has written the file
CsvWritten == pc \in {"plot", "done"}

\* the CSV file the run wrote
Csv ==
    (CHOOSE f \in csv_files : f.path = CsvPath(script, filename)).content

FixedHeader ==
    <<<<"code">>, <<"location">>, <<"count_registered">>,
      <<"count_envelopes">>, <<"count_valid">>>>

\* the first link that gave a record for the code
FirstProducer(code) ==
    CHOOSE k \in Producers(code) : \A m \in Producers(code) : k <= m

\* C12: the CSV a run writes has one row per district code of the
\* ResultSet, the rows in the order in which the links first gave a record
\* for their code; its header is code, location, count_registered,
\* count_envelopes, count_valid and then one column per distinct party name
\* of the records, in the order the names are first met across the records
\* in row order.
C12_CsvRowsAndHeader ==
    CsvWritten =>
        /\ Len(Csv.rows) = Len(all_district_data)
        /\ \A j \in 1..Len(Csv.rows) :
              /\ Csv.rows[j][1] = all_district_data[j].key
              /\ Len(Csv.rows[j]) = Len(Csv.header)
        /\ \A i, j \in 1..Len(Csv.rows) :
              i < j =>
                 /\ Csv.rows[i][1] # Csv.rows[j][1]
                 /\ FirstProducer(Csv.rows[i][1])
                       < FirstProducer(Csv.rows[j][1])
        /\ SubSeq(Csv.header, 1, 5) = FixedHeader
        /\ Len(Csv.header) = 5 + Cardinality(Parties)
        /\ \A i \in 6..Len(Csv.header) : Csv.header[i] \in Parties
        /\ \A i, j \in 6..Len(Csv.header) :
              i < j => /\ Csv.header[i] # Csv.header[j]
                       /\ MetBefore(Csv.header[i], Csv.header[j])

\* two rows; the columns follow the first district (B, A) and not the
\* second (A, B)
C12_Witness ==
    /\ pc = "done"
    /\ Len(Csv.rows) = 2
    /\ Csv.rows[1][1] = <<"1">>
    /\ Csv.rows[2][1] = <<"2">>
    /\ DictKeys(Records[1].political_parties_votes.items) = <<<<"B">>, <<"A">>>>
    /\ DictKeys(Records[2].political_parties_votes.items) = <<<<"A">>, <<"B">>>>
    /\ Csv.header = FixedHeader \o <<<<"B">>, <<"A">>>>

-----------------------------------------------------------------------------
(* C13 *)

\* the decimal text of the votes of the party in the record, the empty text
\* when the record has no such party
VoteText(record, party) ==
    IF HasParty(record, party) THEN DecimalText(VotesIn(record, party))
    ELSE <<>>

\* C13: in the CSV a run writes, the cell of a row under a party column is
\* the decimal text of the votes of that party in the record of the row (10
\* is written as 10), whatever the other districts hold, and it is empty
\* when the district has no such party.
C13_CsvRoundTrip ==
    CsvWritten =>
        \A j \in 1..Len(Csv.rows) :
            \A i \in 6..Len(Csv.header) :
                Csv.rows[j][i] =
                    VoteText(all_district_data[j].value, Csv.header[i])

-----------------------------------------------------------------------------
(* C14 *)

\* the page of the k-th link was fetched and has no location heading, and
\* the link has a code
Headless(k) ==
    /\ PageOf(k).ok
    /\ select_one(PageOf(k).h3) = None
    /\ CodeOf(k) # None

\* the loop is over and has returned the ResultSet
LoopReturned == pc = "get_csv"

\* C14 as the specification states it: the ResultSet the loop returns has
\* no entry under the code of a district page without the location heading,
\* whatever the other links of the run are.
C14_NoEntryForHeadlessCode ==
    LoopReturned =>
        \A k \in 1..Len(links) :
            Headless(k) => ~DictHas(all_district_data, CodeOf(k)[1])

\* C14 as the code has it: a district page without the location heading
\* adds no record and removes none.  The ResultSet the loop returns has an
\* entry under the code of such a page only when another link carries the
\* same code, and the entry is then the record of a page with a heading.
C14_HeadlessAddsNothing ==
    LoopReturned =>
        \A k \in 1..Len(links) :
            Headless(k) =>
                /\ (\A m \in 1..Len(links) : CodeOf(m) = CodeOf(k) => Headless(m))
                      => ~DictHas(all_district_data, CodeOf(k)[1])
                /\ DictHas(all_district_data, CodeOf(k)[1]) =>
                      \E m \in 1..Len(links) :
                          /\ links[m] # links[k]
                          /\ CodeOf(m) = CodeOf(k)
                          /\ HasName(PageOf(m)) \/ script = Legacy
                          /\ select_one(PageOf(m).h3) # None
                          /\ DictGet(all_district_data, CodeOf(k)[1])
                                = RecordOf(m)

\* a page with the heading and then a page without it, both under code 1:
\* the record of the first stays
C14_Witness ==
    /\ LoopReturned
    /\ Len(links) = 2
    /\ CodeOf(1) = CodeOf(2)
    /\ ~Headless(1)
    /\ Headless(2)
    /\ Len(all_district_data) = 1
    /\ all_district_data[1].value = RecordOf(1)

-----------------------------------------------------------------------------
(* C15 *)

\* the URL gives the value to the parameter xobec: "xobec=" follows "?" or
\* "&" at place i and the value, which is not empty, runs to the next "&"
\* or to the end
GivesCodeAt(url, i, value) ==
    /\ url[i] \in {"?", "&"}
    /\ i + 2 + Len(value) <= Len(url)
    /\ url[i + 1] = "xobec"
    /\ url[i + 2] = "="
    /\ value # <<>>
    /\ SubSeq(url, i + 3, i + 2 + Len(value)) = value
    /\ \A m \in 1..Len(value) : value[m] # "&"
    /\ i + 2 + Len(value) < Len(url) => url[i + 3 + Len(value)] = "&"

GivesCode(url, value) == \E i \in 1..Len(url) : GivesCodeAt(url, i, value)

\* the URL has no parameter xobec, or has it with an empty value
NoCode(url) ==
    \A i \in 1..(Len(url) - 2) :
        (url[i] \in {"?", "&"} /\ url[i + 1] = "xobec" /\ url[i + 2] = "=")
            => (i + 2 = Len(url) \/ url[i + 3] = "&")

\* C15: at every point of the loop, every key of the ResultSet is the
\* non-empty value that a link taken so far gives to the parameter xobec.
\* A link without the parameter, or with an empty value for it, adds no
\* record: the ResultSet has no more entries than links with a code were
\* taken.
C15_KeysAreCodes ==
    /\ \A j \in 1..Len(all_district_data) :
          /\ all_district_data[j].key # <<>>
          /\ \E k \in 1..pos : GivesCode(links[k], all_district_data[j].key)
    /\ Len(all_district_data)
          <= Cardinality({k \in 1..pos : ~NoCode(links[k])})
    /\ \A k \in 1..pos : NoCode(links[k]) => ~Produces(k)

\* a link with an empty xobec and a link without xobec, both to a page
\* that lacks nothing, have been taken, and the ResultSet is empty
C15_Witness ==
    /\ pc = "get_csv"
    /\ Len(links) = 2
    /\ links[1] # links[2]
    /\ NoCode(links[1]) /\ NoCode(links[2])
    /\ PageOf(1) = NominalPage /\ PageOf(2) = NominalPage
    /\ all_district_data = <<>>

-----------------------------------------------------------------------------
(* C16 *)

\* what follows the first colon of the text
AfterFirstColon(text) == SubSeq(text, IndexOf(text, ":") + 1, Len(text))

\* the text of the heading the selector matches
HeadingOf(page) == select_one(page.h3)[1]

\* C16: the location of the record of the link taken last is what follows
\* the first colon of the heading of its page, without the whitespace
\* before and after it, colons of the name included.
C16_LocationAfterFirstColon ==
    (pos >= 1 /\ Produces(pos)) =>
        DictGet(all_district_data, CodeOf(pos)[1]).location
            = Strip(AfterFirstColon(HeadingOf(PageOf(pos))))

-----------------------------------------------------------------------------
(* C17 *)

\* the run has evaluated the guard of get_csv: it raised, or the file was
\* written
GuardEvaluated ==
    \/ pc = "crashed" /\ error = "FileExistsError"
    \/ csv_files # csv_before

\* get_csv ended the run
CsvExportFailed == pc = "crashed" /\ error \in {"FileExistsError", "KeyError"}

\* C17: within a run, the guard of an existing file is evaluated only when
\* every district link has been fetched and parsed; the chart is written
\* only when the CSV of the same run has been written; and when get_csv
\* ends the run, by the guard or otherwise, the charts are as they were.
C17_PipelineOrder ==
    /\ GuardEvaluated =>
          /\ pos = Len(links)
          /\ requested = <<index_url>> \o links
    /\ png_files # png_before =>
          /\ pc = "done"
          /\ ~FileExists(csv_before, CsvPath(script, filename))
          /\ FileExists(csv_files, CsvPath(script, filename))
          /\ Csv = CsvContent(all_district_data)
    /\ CsvExportFailed => png_files = png_before

\* the second run: both districts were fetched, then the guard fired, and
\* the chart of the first run is as it was
C17_Witness ==
    /\ runs = 2
    /\ pc = "crashed"
    /\ error = "FileExistsError"
    /\ Len(links) = 2
    /\ Len(requested) = 3
    /\ png_files = png_before
    /\ FileExists(png_files, PlotPath(script, filename))

-----------------------------------------------------------------------------
(* C18 *)

\* the loop returned an empty ResultSet and get_csv has been called with it
EmptyExported ==
    /\ pc \in {"plot", "done", "crashed"}
    /\ ~AbortedInExtraction
    /\ pos = Len(links)
    /\ Len(requested) = Len(links) + 1
    /\ all_district_data = <<>>

\* C18: when the loop returns an empty ResultSet, get_csv raises KeyError
\* and the run ends with a non-zero status; the files under Results are as
\* they were, no file is reported as created, and when there was nothing
\* under Results the directory has not been made.
C18_EmptyResultSetRaises ==
    EmptyExported =>
        /\ pc = "crashed"
        /\ error = "KeyError"
        /\ ExitStatus = 1
        /\ csv_files = csv_before
        /\ png_files = png_before
        /\ (csv_before = {} /\ png_before = {}) => ~results_dir
        /\ \A j \in 1..Len(stdout) :
              stdout[j].text \notin {"CSV FILE SUCCESSFULLY CREATED",
                                     "BAR PLOT SUCCESSFULLY CREATED",
                                     "PROCESS SUCCESSFULLY FINISHED"}

\* two districts, both skipped, nothing under Results before or after
C18_Witness ==
    /\ EmptyExported
    /\ Len(links) = 2
    /\ PageOf(1).ok /\ PageOf(2).ok
    /\ error = "KeyError"
    /\ ~results_dir
    /\ csv_files = {}

====
